---------------------------- MODULE Spec2Model ----------------------------
(***************************************************************************)
(* Model of dioptra/task_engine/error_message.py: the schema reference     *)
(* resolver, the one-of alternative namer, the instance path describer and *)
(* the composer of validation error messages.                              *)
(*                                                                         *)
(* Representation.  A Python str that the code takes apart (a "$ref"       *)
(* fragment, a mapping key, a path token, a title) is a sequence of        *)
(* one-character strings; message text the code only concatenates is a     *)
(* TLA+ string.  A JSON value is a record [t, items]: "dict" (items: a     *)
(* function from keys to values), "list" (items: a sequence of values),    *)
(* "str" (items: its characters), "none" (JSON null, Python None) and      *)
(* "bool" (true/false and numbers: values that support no indexing).       *)
(***************************************************************************)
EXTENDS Integers, Sequences, FiniteSets, TLC

VARIABLES
    full_schema,    \* extract: the root document
    schema,         \* extract: the "schema" argument of the current frame
    schema_path,    \* extract: the "schema_path" argument of the current frame
    depth,          \* extract: number of frames of the recursion on the stack
    pc,             \* position of the running operation: "call" or "done"
    result,         \* what the operation returned or raised
    call,           \* extract: the caller's arguments of the outermost call
    visited,        \* extract: the (schema, schema_path) pairs of earlier frames
    alternative_schemas,  \* namer: the members of a oneOf list
    error,          \* composer: the validation error being explained
    instance_path,  \* locator: the instance path being described
    errors          \* validation_errors_to_message: the errors being explained

vars == <<full_schema, schema, schema_path, depth, pc, result, call, visited,
          alternative_schemas, error, instance_path, errors>>

\* what the resolver's frames leave alone
notExtract == <<alternative_schemas, error, instance_path, errors>>

---------------------------------------------------------------------------
(* Bounds of the model *)

\* longest path handed to the outermost call of extract
MaxPathLen == 2

\* the interpreter's bound on nested calls (sys.getrecursionlimit(), 1000 in
\* CPython), scaled down: a deeper recursion raises RecursionError
RecursionLimit == 12

\* most members of a oneOf list handed to the namer
MaxAlternatives == 3

\* most nested errors (error.context) of a oneOf error
MaxContext == 2

---------------------------------------------------------------------------
(* JSON values *)

Str(cs) == [t |-> "str", items |-> cs]
Lst(ns) == [t |-> "list", items |-> ns]
Dct(f) == [t |-> "dict", items |-> f]
None == [t |-> "none", items |-> <<>>]
Bool == [t |-> "bool", items |-> <<>>]

EmptyDict == Dct(<<>>)

\* the element of a one-element set; {F(v) : v \in {e}} evaluates e once
Only(S) == CHOOSE x \in S : TRUE

RefKey == <<"$", "r", "e", "f">>
TitleKey == <<"t", "i", "t", "l", "e">>

\* isinstance(schema, dict) and "$ref" in schema
IsRefNode(node) == node.t = "dict" /\ RefKey \in DOMAIN node.items

\* a path token: an int or a str
IntTok(n) == [k |-> "int", n |-> n, s |-> <<>>]
StrTok(cs) == [k |-> "str", n |-> 0, s |-> cs]

\* outcomes of a call
Returned(node) ==
    [ok |-> TRUE, node |-> node, err |-> "", names |-> <<>>, lines |-> <<>>,
     what |-> ""]
Raised(e) ==
    [ok |-> FALSE, node |-> None, err |-> e, names |-> <<>>, lines |-> <<>>,
     what |-> ""]
NoResult == Raised("pending")

---------------------------------------------------------------------------
(* str.split("/"), int(str) *)

RECURSIVE SplitAcc(_, _, _)
\* cs.split(sep): acc is the piece being collected
SplitAcc(cs, sep, acc) ==
    IF cs = <<>> THEN <<acc>>
    ELSE IF Head(cs) = sep THEN <<acc>> \o SplitAcc(Tail(cs), sep, <<>>)
    ELSE SplitAcc(Tail(cs), sep, Append(acc, Head(cs)))

Split(cs, sep) == SplitAcc(cs, sep, <<>>)

Digits == <<"0", "1", "2", "3", "4", "5", "6", "7", "8", "9">>

IsDigit(c) == \E i \in 1..10 : Digits[i] = c

DigitVal(c) == (CHOOSE i \in 1..10 : Digits[i] = c) - 1

RECURSIVE DigitsVal(_, _)
DigitsVal(cs, acc) ==
    IF cs = <<>> THEN acc ELSE DigitsVal(Tail(cs), 10 * acc + DigitVal(Head(cs)))

\* the strings int() accepts: an optional sign and at least one digit
\* (surrounding blanks and "_" separators are not in the model's alphabet)
IsIntLiteral(cs) ==
    LET body == IF cs # <<>> /\ Head(cs) \in {"+", "-"} THEN Tail(cs) ELSE cs
    IN  body # <<>> /\ \A i \in 1..Len(body) : IsDigit(body[i])

IntOfStr(cs) ==
    IF Head(cs) = "-" THEN 0 - DigitsVal(Tail(cs), 0)
    ELSE IF Head(cs) = "+" THEN DigitsVal(Tail(cs), 0)
    ELSE DigitsVal(cs, 0)

---------------------------------------------------------------------------
(* _schema_reference_to_path *)

\* SchemaReferenceToPath turning all-digit components into integers
SchemaReferenceToPathEager(ref) ==
    IF ref = <<"#">> THEN <<>>
    ELSE LET parts == Split(SubSeq(ref, 3, Len(ref)), "/")
         IN  [i \in 1..Len(parts) |->
                IF IsIntLiteral(parts[i]) THEN IntTok(IntOfStr(parts[i]))
                ELSE StrTok(parts[i])]

SchemaReferenceToPath(ref) ==
    IF ref = <<"#">> THEN <<>>
    ELSE LET stripped == SubSeq(ref, 3, Len(ref))
             parts == Split(stripped, "/")
         IN  [i \in 1..Len(parts) |-> StrTok(parts[i])]

---------------------------------------------------------------------------
(* _extract_schema_by_schema_path: one frame of the recursion *)

\* what a frame does: return a node, raise, or make the (tail) recursive call
StepReturn(node) == [kind |-> "return", path |-> <<>>, node |-> node, err |-> ""]
StepRaise(e) == [kind |-> "raise", path |-> <<>>, node |-> None, err |-> e]
StepCall(path, node) == [kind |-> "call", path |-> path, node |-> node, err |-> ""]

\* "not next_path_component" for a component that next() produced
IsFalsy(tok) ==
    \/ tok.k = "int" /\ tok.n = 0
    \/ tok.k = "str" /\ tok.s = <<>>

\* seq[idx] of a Python list or str of length n: the 1-based position, 0 if
\* idx is out of range (negative indices count from the end)
SeqPosition(idx, n) ==
    IF 0 <= idx /\ idx < n THEN idx + 1
    ELSE IF idx < 0 /\ 0 - idx <= n THEN n + idx + 1
    ELSE 0

\* schema[next_path_component], wrapped as the frame's next step
Subscript(node, tok, rest) ==
    CASE node.t = "dict" ->
            IF tok.k = "str" /\ tok.s \in DOMAIN node.items
            THEN StepCall(rest, node.items[tok.s])
            ELSE StepRaise("KeyError")
      [] node.t = "list" ->
            IF tok.k = "str" /\ ~IsIntLiteral(tok.s) THEN StepRaise("ValueError")
            ELSE LET idx == IF tok.k = "int" THEN tok.n ELSE IntOfStr(tok.s)
                     pos == SeqPosition(idx, Len(node.items))
                 IN  IF pos = 0 THEN StepRaise("IndexError")
                     ELSE StepCall(rest, node.items[pos])
      [] node.t = "str" ->
            IF tok.k = "str" THEN StepRaise("TypeError")
            ELSE LET pos == SeqPosition(tok.n, Len(node.items))
                 IN  IF pos = 0 THEN StepRaise("IndexError")
                     ELSE StepCall(rest, Str(<<node.items[pos]>>))
      [] OTHER -> StepRaise("TypeError")

\* the combined path built in the list the caller passed
SchemaPathAfterExtendInPlace(ref_schema_path, path) == ref_schema_path \o path

\* line 193, ref_schema_path.extend(schema_path): the list that grows is the
\* one _schema_reference_to_path made; the list passed in by the caller is
\* read and is afterwards what it was
SchemaPathAfterExtend(ref_schema_path, path) == path

\* FollowRef resolving the fragment against the current node, not the root
FollowRefRelative(path, node) ==
    StepCall(SchemaReferenceToPath(node.items[RefKey].items) \o path,
             Dct([k \in DOMAIN node.items \ {RefKey} |-> node.items[k]]))

\* the branch taken on a reference node
FollowRef(path, node) ==
    LET ref == node.items[RefKey]
    IN  IF ref.t = "str"
        THEN StepCall(SchemaReferenceToPath(ref.items) \o path, None)
        ELSE IF ref.t = "list" THEN StepRaise("AttributeError")
        ELSE StepRaise("TypeError")

\* the branch taken on any other node
WalkStep(path, node) ==
    IF path = <<>> \/ IsFalsy(Head(path)) THEN StepReturn(node)
    ELSE Subscript(node, Head(path), Tail(path))

\* ExtractStep looking at the path before it looks for a reference
ExtractStepPathFirst(path, full, node) ==
    LET cur == IF node = None THEN full ELSE node
    IN  IF path = <<>> THEN StepReturn(cur)
        ELSE IF IsRefNode(cur) THEN FollowRef(path, cur)
        ELSE WalkStep(path, cur)

\* the body of one frame; a None "schema" argument means the root document
ExtractStep(path, full, node) ==
    LET cur == IF node = None THEN full ELSE node
    IN  IF IsRefNode(cur) THEN FollowRef(path, cur) ELSE WalkStep(path, cur)

\* Invoke giving up at the limit with the node at hand instead of raising
InvokeReturningAtLimit(path, full, node, d) ==
    IF d > RecursionLimit THEN StepReturn(IF node = None THEN full ELSE node)
    ELSE ExtractStep(path, full, node)

\* a call that would be frame number d: the interpreter refuses it beyond its
\* recursion limit
Invoke(path, full, node, d) ==
    IF d > RecursionLimit THEN StepRaise("RecursionError")
    ELSE ExtractStep(path, full, node)

RECURSIVE ExtractFrom(_, _, _, _)
\* the whole recursion, entered as frame number d
ExtractFrom(path, full, node, d) ==
    Only({CASE s.kind = "call" -> ExtractFrom(s.path, full, s.node, d + 1)
            [] s.kind = "return" -> Returned(s.node)
            [] OTHER -> Raised(s.err) :
          s \in {Invoke(path, full, node, d)}})

\* _extract_schema_by_schema_path(schema_path, full_schema, schema)
Extract(path, full, node) == ExtractFrom(path, full, node, 1)

\* _extract_schema_by_reference(ref, schema)
ExtractByReference(ref, full) == Extract(SchemaReferenceToPath(ref), full, None)

---------------------------------------------------------------------------
(* Inputs of the resolver *)

StrX == Str(<<"x">>)
Ref(f) == Dct(RefKey :> Str(f))
\* a reference node with a sibling key
RefSib(f) == Dct((RefKey :> Str(f)) @@ (<<"a">> :> StrX))

FragRoot == <<"#">>
FragA == <<"#", "/", "a">>
FragB == <<"#", "/", "b">>
FragA0 == <<"#", "/", "a", "/", "0">>
FragEmptyKey == <<"#", "/">>

Frags == {FragRoot, FragA, FragB, FragA0, FragEmptyKey}

Inner == {StrX, None, Ref(FragB)}

AVals ==
    {StrX, None, Bool, Lst(<<>>), RefSib(FragB)}
    \cup {Ref(f) : f \in Frags}
    \cup {Lst(<<x>>) : x \in Inner}
    \cup {Dct(k :> x) : k \in {<<"0">>, <<"a">>, <<>>}, x \in Inner}

BVals == {StrX, None, Dct(<<"a">> :> StrX), Ref(FragA), Ref(FragA0)}

Docs ==
    {Dct((<<"a">> :> a) @@ (<<"b">> :> b)) : a \in AVals, b \in BVals}
    \cup {Ref(FragRoot), RefSib(FragA)}

Tokens ==
    {IntTok(0), IntTok(1), StrTok(<<"a">>), StrTok(<<"b">>), StrTok(<<"0">>),
     StrTok(<<>>)}

PathsOfLen(n) == [1..n -> Tokens]

Paths == UNION {PathsOfLen(n) : n \in 0..MaxPathLen}

\* the "schema" argument of the outermost call: None (the default: the root
\* document) or a reference node
StartNodes == {None, RefSib(FragA)} \cup {Ref(f) : f \in Frags}

---------------------------------------------------------------------------
(* The resolver, frame by frame *)

InitExtract ==
    /\ full_schema \in Docs
    /\ schema \in StartNodes
    /\ schema_path \in Paths
    /\ depth = 1
    /\ pc = "call"
    /\ result = NoResult
    /\ call = [path |-> schema_path, node |-> schema]
    /\ visited = {}
    /\ alternative_schemas = <<>>
    /\ error = None
    /\ instance_path = <<>>
    /\ errors = <<>>

Frame == Invoke(schema_path, full_schema, schema, depth)

CurrentNode == IF schema = None THEN full_schema ELSE schema

\* lines 170-197: the node is a reference; recurse from the root document
FollowReference ==
    /\ pc = "call"
    /\ depth <= RecursionLimit
    /\ IsRefNode(CurrentNode)
    /\ Frame.kind = "call"
    /\ schema' = Frame.node
    /\ schema_path' = Frame.path
    /\ depth' = depth + 1
    /\ visited' = visited \cup {<<schema, schema_path>>}
    /\ call' = [call EXCEPT !.path =
                    IF depth = 1
                    THEN SchemaPathAfterExtend(
                            SchemaReferenceToPath(CurrentNode.items[RefKey].items),
                            schema_path)
                    ELSE @]
    /\ UNCHANGED <<full_schema, pc, result, notExtract>>

\* lines 207-230: look the next path component up and recurse on the child
Descend ==
    /\ pc = "call"
    /\ depth <= RecursionLimit
    /\ ~IsRefNode(CurrentNode)
    /\ Frame.kind = "call"
    /\ schema' = Frame.node
    /\ schema_path' = Frame.path
    /\ depth' = depth + 1
    /\ visited' = visited \cup {<<schema, schema_path>>}
    /\ UNCHANGED <<full_schema, pc, result, call, notExtract>>

\* lines 204-205 and 232: the path is exhausted; every frame returns the node
ReturnNode ==
    /\ pc = "call"
    /\ Frame.kind = "return"
    /\ pc' = "done"
    /\ result' = Returned(Frame.node)
    /\ UNCHANGED <<full_schema, schema, schema_path, depth, call, visited, notExtract>>

\* an exception leaves every frame
RaiseError ==
    /\ pc = "call"
    /\ Frame.kind = "raise"
    /\ pc' = "done"
    /\ result' = Raised(Frame.err)
    /\ UNCHANGED <<full_schema, schema, schema_path, depth, call, visited, notExtract>>

NextExtract == FollowReference \/ Descend \/ ReturnNode \/ RaiseError

SpecExtract == InitExtract /\ [][NextExtract]_vars

---------------------------------------------------------------------------
(* str(int), str.format *)

RECURSIVE StrOfNat(_)
StrOfNat(n) ==
    IF n < 10 THEN <<Digits[n + 1]>>
    ELSE Append(StrOfNat(n \div 10), Digits[(n % 10) + 1])

\* str(n)
StrOfInt(n) == IF n < 0 THEN <<"-">> \o StrOfNat(0 - n) ELSE StrOfNat(n)

---------------------------------------------------------------------------
(* _get_one_of_alternative_names *)

\* "Alternative #"
AlternativePrefix ==
    <<"A", "l", "t", "e", "r", "n", "a", "t", "i", "v", "e", " ", "#">>

\* "Alternative #" + str(idx+1), idx being the 0-based position
FallbackName(idx) == AlternativePrefix \o StrOfInt(idx + 1)

NameOk(name) == [ok |-> TRUE, name |-> name, err |-> ""]
NameErr(e) == [ok |-> FALSE, name |-> <<>>, err |-> e]

\* "not name" for the value of dict.get("title"): None when the key is absent
TitleIsFalsy(title) == title.t = "none" \/ title.items = <<>>

\* lines 272-285: the name of one alternative before it is made unique.  A
\* title that is not a str is not among the model's inputs (a non-empty list or
\* mapping is unhashable at line 288).
CandidateName(alt, idx, full) ==
    IF alt.t = "dict"
    THEN Only({
            IF ~deref.ok THEN NameErr(deref.err)
            ELSE IF deref.node.t # "dict" THEN NameErr("AttributeError")
            ELSE LET title == IF TitleKey \in DOMAIN deref.node.items
                              THEN deref.node.items[TitleKey] ELSE None
                 IN  IF TitleIsFalsy(title) THEN NameOk(FallbackName(idx))
                     ELSE IF title.t = "str" THEN NameOk(title.items)
                     ELSE NameErr("TypeError") :
            deref \in {Extract(<<>>, full, alt)}})
    ELSE NameOk(FallbackName(idx))

\* Uniquified writing the count before it is incremented
UniquifiedOffByOne(name, name_count) ==
    IF name_count = 0 THEN name
    ELSE name \o <<"(">> \o StrOfInt(name_count) \o <<")">>

\* lines 288-293: name_counts[name], the name or "name(count+1)"
Uniquified(name, name_count) ==
    IF name_count = 0 THEN name
    ELSE name \o <<"(">> \o StrOfInt(name_count + 1) \o <<")">>

\* name_counts, a defaultdict(int): a function on the names counted so far
CountOf(name_counts, name) ==
    IF name \in DOMAIN name_counts THEN name_counts[name] ELSE 0

NamesReturned(names) ==
    [ok |-> TRUE, node |-> None, err |-> "", names |-> names, lines |-> <<>>,
     what |-> ""]

RECURSIVE NamesLoop(_, _, _, _, _)
\* the loop of lines 271-293 from the alternative at 0-based position idx on
NamesLoop(alts, idx, name_counts, names, full) ==
    IF idx >= Len(alts) THEN NamesReturned(names)
    ELSE Only({
            IF ~cand.ok THEN Raised(cand.err)
            ELSE Only({NamesLoop(alts, idx + 1, counted, appended, full) :
                    counted \in {[n \in DOMAIN name_counts \cup {cand.name} |->
                                    IF n = cand.name
                                    THEN CountOf(name_counts, cand.name) + 1
                                    ELSE name_counts[n]]},
                    appended \in {Append(names,
                                         Uniquified(cand.name,
                                                    CountOf(name_counts, cand.name)))}}) :
            cand \in {CandidateName(alts[idx + 1], idx, full)}})

GetOneOfAlternativeNames(alts, full) == NamesLoop(alts, 0, <<>>, <<>>, full)

---------------------------------------------------------------------------
(* Inputs of the namer *)

TitleA == <<"A">>
TitleA2 == <<"A", "(", "2", ")">>
TitleB == <<"B">>
TitleAlt2 == AlternativePrefix \o <<"2">>

Titled(title) == Dct(TitleKey :> Str(title))

\* a reference node that carries a title of its own
RefTitled(f, title) == Dct((RefKey :> Str(f)) @@ (TitleKey :> Str(title)))

NamerDocs ==
    {Dct((<<"a">> :> a) @@ (<<"b">> :> b)) :
        a \in {Titled(TitleA), Bool, Ref(FragB)}, b \in {Titled(TitleB), Lst(<<>>)}}

AlternativeValues ==
    {Titled(TitleA), Titled(TitleA2), Titled(TitleB), Titled(TitleAlt2),
     Titled(<<>>), EmptyDict, Bool, Ref(FragA), RefTitled(FragB, TitleA)}

AlternativeLists ==
    UNION {[1..n -> AlternativeValues] : n \in 0..MaxAlternatives}

---------------------------------------------------------------------------
(* The namer *)

InitNamer ==
    /\ full_schema \in NamerDocs
    /\ alternative_schemas \in AlternativeLists
    /\ schema = None
    /\ schema_path = <<>>
    /\ depth = 0
    /\ pc = "call"
    /\ result = NoResult
    /\ call = [path |-> <<>>, node |-> None]
    /\ visited = {}
    /\ error = None
    /\ instance_path = <<>>
    /\ errors = <<>>

\* lines 268-295; the call returns the names or raises
GetNames ==
    /\ pc = "call"
    /\ pc' = "done"
    /\ result' = GetOneOfAlternativeNames(alternative_schemas, full_schema)
    /\ UNCHANGED <<full_schema, schema, schema_path, depth, call, visited,
                   alternative_schemas, error, instance_path, errors>>

NextNamer == GetNames

SpecNamer == InitNamer /\ [][NextNamer]_vars

---------------------------------------------------------------------------
(* Message text *)

\* Controls indentation of sub-parts of error messages
INDENT_SIZE == 4

RECURSIVE ToStr(_)
\* the characters of a str as message text
ToStr(cs) == IF cs = <<>> THEN "" ELSE Head(cs) \o ToStr(Tail(cs))

RECURSIVE Join(_, _)
\* sep.join(strs)
Join(strs, sep) ==
    IF strs = <<>> THEN ""
    ELSE IF Len(strs) = 1 THEN strs[1]
    ELSE strs[1] \o sep \o Join(Tail(strs), sep)

RECURSIVE Spaces(_)
\* " " * n
Spaces(n) == IF n <= 0 THEN "" ELSE " " \o Spaces(n - 1)

\* _indent_lines with one space less
IndentLinesShort(lines) ==
    [i \in 1..Len(lines) |-> Spaces(INDENT_SIZE - 1) \o lines[i]]

\* _indent_lines
IndentLines(lines) == [i \in 1..Len(lines) |-> Spaces(INDENT_SIZE) \o lines[i]]

\* str(elt) of a path element
TokStr(tok) == IF tok.k = "int" THEN ToStr(StrOfInt(tok.n)) ELSE ToStr(tok.s)

\* _json_path_to_string without the leading "/"
JsonPathToStringRelative(path) ==
    Join([i \in 1..Len(path) |-> TokStr(path[i])], "/")

\* _json_path_to_string
JsonPathToString(path) ==
    "/" \o Join([i \in 1..Len(path) |-> TokStr(path[i])], "/")

---------------------------------------------------------------------------
(* _instance_path_to_description *)

KeyParameters == <<"p", "a", "r", "a", "m", "e", "t", "e", "r", "s">>
KeyTasks == <<"t", "a", "s", "k", "s">>
KeyGraph == <<"g", "r", "a", "p", "h">>
KeyOutputs == <<"o", "u", "t", "p", "u", "t", "s">>
KeyPlugin == <<"p", "l", "u", "g", "i", "n">>
KeyDependencies ==
    <<"d", "e", "p", "e", "n", "d", "e", "n", "c", "i", "e", "s">>

\* instance_path[i] == "<key>", i being the 0-based position
TokIs(path, i, key) == path[i + 1].k = "str" /\ path[i + 1].s = key

\* the parameter's index as it is, 0-based
ParameterNumberZeroBased(parameter_id) == "#" \o ToStr(StrOfInt(parameter_id.n))

\* line 113: "#" + str(parameter_id+1)
ParameterNumber(parameter_id) == "#" \o ToStr(StrOfInt(parameter_id.n + 1))

\* lines 93-135: message_parts
MessageParts(path) ==
    LET path_len == Len(path)
    IN  IF path_len = 0 THEN <<"root level of experiment description">>
        ELSE IF TokIs(path, 0, KeyParameters) THEN
            IF path_len = 1 THEN <<"global parameters section">>
            ELSE LET parameter_id == path[2]
                 IN  IF parameter_id.k = "str"
                     THEN <<"parameter", "\"" \o ToStr(parameter_id.s) \o "\"">>
                     ELSE <<"parameter", ParameterNumber(parameter_id)>>
        ELSE IF TokIs(path, 0, KeyTasks) THEN
            IF path_len = 1 THEN <<"tasks section">>
            ELSE <<"task plugin \"" \o TokStr(path[2]) \o "\"">>
                 \o (IF path_len > 2 /\ TokIs(path, 2, KeyOutputs)
                     THEN <<"outputs">>
                     ELSE IF path_len > 2 /\ TokIs(path, 2, KeyPlugin)
                     THEN <<"plugin ID">>
                     ELSE <<>>)
        ELSE IF TokIs(path, 0, KeyGraph) THEN
            IF path_len = 1 THEN <<"graph section">>
            ELSE <<"step \"" \o TokStr(path[2]) \o "\"">>
                 \o (IF path_len > 2 /\ TokIs(path, 2, KeyDependencies)
                     THEN <<"dependencies">>
                     ELSE <<>>)
        ELSE <<>>

InstancePathToDescription(path) ==
    LET message_parts == MessageParts(path)
    IN  IF message_parts # <<>> THEN Join(message_parts, " ")
        ELSE "experiment description location " \o JsonPathToString(path)

---------------------------------------------------------------------------
(* Validation errors and their messages *)

\* a jsonschema ValidationError: the fields the code reads.  valid is the set
\* of alternatives the instance is valid for, as the validator of
\* _is_valid_for_sub_schema answers
ValidationError(validator, path, schema_path_, value, valid, context, message) ==
    [validator |-> validator, absolute_path |-> path,
     absolute_schema_path |-> schema_path_,
     validator_value |-> value, valid |-> valid, context |-> context,
     message |-> message]

\* a probe that finds the instance valid for every alternative
IsValidForEverySubSchema(err, alt_schema) == TRUE

\* _is_valid_for_sub_schema(schema, alt_schema, error.instance)
IsValidForSubSchema(err, alt_schema) == alt_schema \in err.valid

LinesOk(lines, what) ==
    [ok |-> TRUE, node |-> None, err |-> "", names |-> <<>>, lines |-> lines,
     what |-> what]
LinesErr(e, what) ==
    [ok |-> FALSE, node |-> None, err |-> e, names |-> <<>>, lines |-> <<>>,
     what |-> what]

NamesText(names) == Join([i \in 1..Len(names) |-> ToStr(names[i])], ", ")

\* _one_of_too_many_alternatives_satisfied_message_lines
OneOfTooManyLines(err, full) ==
    Only({
        IF ~named.ok THEN LinesErr(named.err, "toomany")
        ELSE LET alt_names == named.names
                 error_desc == "Must be exactly one of: " \o NamesText(alt_names)
                 satisfied_alt_names ==
                     SelectSeq([i \in 1..Len(alt_names) |->
                                   [name |-> alt_names[i],
                                    alt |-> err.validator_value[i]]],
                               LAMBDA pair : IsValidForSubSchema(err, pair.alt))
             IN  LinesOk(<<error_desc
                           \o ".  Content satisfied more than one alternative: "
                           \o NamesText([i \in 1..Len(satisfied_alt_names) |->
                                            satisfied_alt_names[i].name])
                           \o ".">>, "toomany") :
        named \in {GetOneOfAlternativeNames(err.validator_value, full)}})

GroupsOk(groups) == [ok |-> TRUE, groups |-> groups, err |-> ""]
GroupsErr(e) == [ok |-> FALSE, groups |-> <<>>, err |-> e]

\* errors_by_alt[name].append(ctx_error): a defaultdict(list), which keeps the
\* order in which its keys were first used
AppendToGroup(groups, name, ctx_error) ==
    IF \E g \in 1..Len(groups) : groups[g].name = name
    THEN [g \in 1..Len(groups) |->
            IF groups[g].name = name
            THEN [name |-> name, errors |-> Append(groups[g].errors, ctx_error)]
            ELSE groups[g]]
    ELSE Append(groups, [name |-> name, errors |-> <<ctx_error>>])

RECURSIVE GroupByAlternative(_, _, _, _, _)
\* lines 412-425 from the c-th nested error on
GroupByAlternative(context, c, one_of_schema_path_len, alt_names, groups) ==
    IF c > Len(context) THEN GroupsOk(groups)
    ELSE LET ctx_error == context[c]
             path == ctx_error.absolute_schema_path
         IN  IF Len(path) <= one_of_schema_path_len THEN GroupsErr("IndexError")
             ELSE LET error_alt_idx == path[one_of_schema_path_len + 1]
                  IN  IF error_alt_idx.k # "int" THEN GroupsErr("AssertionError")
                      ELSE LET pos == SeqPosition(error_alt_idx.n, Len(alt_names))
                           IN  IF pos = 0 THEN GroupsErr("IndexError")
                               ELSE Only({GroupByAlternative(
                                            context, c + 1, one_of_schema_path_len,
                                            alt_names, appended) :
                                        appended \in {AppendToGroup(
                                            groups, alt_names[pos], ctx_error)}})

\* WhatCase with the test of error.context inverted
WhatCaseInverted(err) ==
    IF err.validator = "oneOf"
    THEN IF err.context = <<>> THEN "none" ELSE "toomany"
    ELSE "generic"

\* lines 462-477: which explanation the composer uses
WhatCase(err) ==
    IF err.validator = "oneOf"
    THEN IF err.context # <<>> THEN "none" ELSE "toomany"
    ELSE "generic"

RECURSIVE ValidationErrorToMessageLines(_, _)
RECURSIVE RenderErrors(_, _, _, _)
RECURSIVE RenderGroups(_, _, _, _)

\* lines 434-438 from the e-th error of one alternative on
RenderErrors(alt_errors, e, message_lines, full) ==
    IF e > Len(alt_errors) THEN LinesOk(message_lines, "none")
    ELSE Only({
            IF ~sub.ok THEN LinesErr(sub.err, "none")
            ELSE Only({RenderErrors(alt_errors, e + 1, extended, full) :
                    extended \in {message_lines \o IndentLines(sub.lines)}}) :
            sub \in {ValidationErrorToMessageLines(alt_errors[e], full)}})

\* lines 427-438 from the g-th alternative with errors on
RenderGroups(groups, g, message_lines, full) ==
    IF g > Len(groups) THEN LinesOk(message_lines, "none")
    ELSE Only({
            IF ~rendered.ok THEN rendered
            ELSE RenderGroups(groups, g + 1, rendered.lines, full) :
            rendered \in {RenderErrors(
                groups[g].errors, 1,
                Append(message_lines,
                       "Errors associated with alternative \""
                          \o ToStr(groups[g].name) \o "\":"),
                full)}})

\* _one_of_no_alternatives_satisfied_message_lines
OneOfNoAlternativesLines(err, full) ==
    Only({
        IF ~named.ok THEN LinesErr(named.err, "none")
        ELSE Only({
                IF ~grouped.ok THEN LinesErr(grouped.err, "none")
                ELSE RenderGroups(grouped.groups, 1, <<basic_desc>>, full) :
                basic_desc \in {"Must be exactly one of: "
                                   \o NamesText(named.names)
                                   \o "; all alternatives failed validation."},
                grouped \in {GroupByAlternative(
                                err.context, 1, Len(err.absolute_schema_path),
                                named.names, <<>>)}}) :
        named \in {GetOneOfAlternativeNames(err.validator_value, full)}})

\* _validation_error_to_message_lines
ValidationErrorToMessageLines(err, full) ==
    Only({
        IF ~what.ok THEN LinesErr(what.err, case)
        ELSE IF Len(what.lines) = 1
        THEN LinesOk(<<"In " \o location_desc \o ": " \o what.lines[1]>>, case)
        ELSE LinesOk(<<"In " \o location_desc \o ":">> \o IndentLines(what.lines),
                     case) :
        location_desc \in {InstancePathToDescription(err.absolute_path)},
        case \in {WhatCase(err)},
        what \in {CASE WhatCase(err) = "none" -> OneOfNoAlternativesLines(err, full)
                    [] WhatCase(err) = "toomany" -> OneOfTooManyLines(err, full)
                    [] OTHER -> LinesOk(<<err.message>>, "generic")}})

---------------------------------------------------------------------------
(* Inputs of the composer *)

InstancePaths ==
    {<<>>,
     <<StrTok(KeyParameters)>>,
     <<StrTok(KeyParameters), StrTok(<<"l", "r">>)>>,
     <<StrTok(KeyParameters), IntTok(2)>>,
     <<StrTok(KeyTasks), StrTok(<<"t">>), StrTok(KeyOutputs)>>,
     <<StrTok(KeyGraph), StrTok(<<"s">>), StrTok(<<"x">>)>>,
     <<StrTok(<<"u">>), IntTok(0)>>}

KeyOneOf == <<"o", "n", "e", "O", "f">>

\* absolute_schema_path of the oneOf errors
OneOfSchemaPath == <<StrTok(KeyOneOf)>>

GenericErrors ==
    {ValidationError(v, p, <<StrTok(<<"t">>)>>, None, {}, <<>>, m) :
        v \in {"type", "required"}, p \in InstancePaths, m \in {"m1", "m2"}}

\* the token a nested error's schema path holds after the oneOf's path: none,
\* an index, a key
AfterPrefix ==
    {<<>>, <<StrTok(<<"x">>)>>}
    \cup {<<IntTok(i), StrTok(<<"t">>)>> : i \in {0 - 1, 1, 2, MaxAlternatives}}

\* the schema path of a oneOf below the alternative i of the explained oneOf
NestedOneOfSchemaPath(i) == OneOfSchemaPath \o <<IntTok(i), StrTok(KeyOneOf)>>

\* nested errors: generic ones, a oneOf error of its own without nested
\* errors, and one with a nested error
ContextErrors ==
    {ValidationError("type", <<StrTok(KeyParameters)>>, OneOfSchemaPath \o a, None,
                     {}, <<>>, "m1") : a \in AfterPrefix}
    \cup {ValidationError("oneOf", <<>>, NestedOneOfSchemaPath(0),
                          <<Titled(TitleA), Bool>>, {Titled(TitleA), Bool}, <<>>,
                          "m2"),
          ValidationError("oneOf", <<StrTok(KeyTasks)>>, NestedOneOfSchemaPath(1),
                          <<Titled(TitleA), Bool>>, {},
                          <<ValidationError("type", <<StrTok(KeyParameters)>>,
                                            NestedOneOfSchemaPath(1)
                                              \o <<IntTok(1), StrTok(<<"t">>)>>,
                                            None, {}, <<>>, "m1")>>,
                          "m2")}

Contexts == UNION {[1..n -> ContextErrors] : n \in 1..MaxContext}

ComposerAlternatives == {Titled(TitleA), Titled(TitleA2), Ref(FragA)}

ComposerAlternativeLists ==
    UNION {[1..n -> ComposerAlternatives] : n \in 1..MaxAlternatives}

OneOfErrors ==
    {ValidationError("oneOf", p, OneOfSchemaPath, alts, valid, <<>>, "m1") :
        p \in {<<>>, <<StrTok(KeyParameters), IntTok(2)>>},
        alts \in ComposerAlternativeLists, valid \in SUBSET ComposerAlternatives}
    \cup {ValidationError("oneOf", p, OneOfSchemaPath, alts, {}, ctx, "m1") :
        p \in {<<>>, <<StrTok(KeyParameters), IntTok(2)>>},
        alts \in ComposerAlternativeLists, ctx \in Contexts}

ComposerDocs ==
    {Dct((<<"a">> :> a) @@ (<<"b">> :> Titled(TitleB))) :
        a \in {Titled(TitleA), Bool}}

---------------------------------------------------------------------------
(* The composer *)

InitComposer ==
    /\ full_schema \in ComposerDocs
    /\ error \in GenericErrors \cup OneOfErrors
    /\ alternative_schemas = <<>>
    /\ schema = None
    /\ schema_path = <<>>
    /\ depth = 0
    /\ pc = "call"
    /\ result = NoResult
    /\ call = [path |-> <<>>, node |-> None]
    /\ visited = {}
    /\ instance_path = <<>>
    /\ errors = <<>>

Explained ==
    /\ pc' = "done"
    /\ result' = ValidationErrorToMessageLines(error, full_schema)
    /\ UNCHANGED <<full_schema, schema, schema_path, depth, call, visited,
                   alternative_schemas, error, instance_path, errors>>

\* lines 464-467: a oneOf error with nested errors
ExplainNoneSatisfied ==
    /\ pc = "call"
    /\ error.validator = "oneOf"
    /\ error.context # <<>>
    /\ Explained

\* lines 469-473: a oneOf error without nested errors
ExplainTooManySatisfied ==
    /\ pc = "call"
    /\ error.validator = "oneOf"
    /\ error.context = <<>>
    /\ Explained

\* lines 475-477: any other validator
ExplainGeneric ==
    /\ pc = "call"
    /\ error.validator # "oneOf"
    /\ Explained

NextComposer == ExplainNoneSatisfied \/ ExplainTooManySatisfied \/ ExplainGeneric

SpecComposer == InitComposer /\ [][NextComposer]_vars

---------------------------------------------------------------------------
(* The locator: _instance_path_to_description on its own *)

\* longest instance path described
MaxInstancePathLen == 3

InstanceTokens ==
    {StrTok(k) : k \in {KeyParameters, KeyTasks, KeyGraph, KeyOutputs, KeyPlugin,
                        KeyDependencies, <<"l", "r">>}}
    \cup {IntTok(0), IntTok(2)}

LocatorPaths ==
    UNION {[1..n -> InstanceTokens] : n \in 0..MaxInstancePathLen}

\* the description returned
Described(description) ==
    [ok |-> TRUE, node |-> None, err |-> "", names |-> <<>>,
     lines |-> <<description>>, what |-> "where"]

InitLocator ==
    /\ instance_path \in LocatorPaths
    /\ full_schema = None
    /\ schema = None
    /\ schema_path = <<>>
    /\ depth = 0
    /\ pc = "call"
    /\ result = NoResult
    /\ call = [path |-> <<>>, node |-> None]
    /\ visited = {}
    /\ alternative_schemas = <<>>
    /\ error = None
    /\ errors = <<>>

LocatorReturns ==
    /\ pc' = "done"
    /\ result' = Described(InstancePathToDescription(instance_path))
    /\ UNCHANGED <<full_schema, schema, schema_path, depth, call, visited,
                   alternative_schemas, error, instance_path, errors>>

\* lines 137-138: some branch appended to message_parts
DescribeKnownLocation ==
    /\ pc = "call"
    /\ MessageParts(instance_path) # <<>>
    /\ LocatorReturns

\* lines 139-142: the fallback
DescribeFallback ==
    /\ pc = "call"
    /\ MessageParts(instance_path) = <<>>
    /\ LocatorReturns

NextLocator == DescribeKnownLocation \/ DescribeFallback

SpecLocator == InitLocator /\ [][NextLocator]_vars

---------------------------------------------------------------------------
(* What the claims about the resolver speak of *)

\* the node the outermost call starts from
StartOf(c, full) == IF c.node = None THEN full ELSE c.node

\* the fragment of a reference node
FragOf(node) == node.items[RefKey].items

RECURSIVE Reach(_, _, _, _)
\* The walk as the specification describes it: a reference node restarts at
\* the root with the fragment's tokens put before the remaining ones; with no
\* token left the node is the answer; otherwise the next token, whatever its
\* value, selects a mapping entry by key or a sequence element by index
\* 0..len-1; a scalar has no children.  status is "found", "missing" (a step
\* does not exist) or "loop" (fuel ran out following references).
Reach(path, full, node, fuel) ==
    IF fuel = 0 THEN [status |-> "loop", node |-> None]
    ELSE IF IsRefNode(node)
    THEN Reach(SchemaReferenceToPath(FragOf(node)) \o path, full, full, fuel - 1)
    ELSE IF path = <<>> THEN [status |-> "found", node |-> node]
    ELSE LET tok == Head(path)
             idx == IF tok.k = "int" THEN tok.n
                    ELSE IF IsIntLiteral(tok.s) THEN IntOfStr(tok.s) ELSE 0 - 1
         IN  IF node.t = "dict" /\ tok.k = "str" /\ tok.s \in DOMAIN node.items
             THEN Reach(Tail(path), full, node.items[tok.s], fuel - 1)
             ELSE IF node.t = "list" /\ 0 <= idx /\ idx < Len(node.items)
             THEN Reach(Tail(path), full, node.items[idx + 1], fuel - 1)
             ELSE [status |-> "missing", node |-> None]

Reached == Reach(call.path, full_schema, StartOf(call, full_schema), RecursionLimit)

\* the tokens of the model's fragments, written out
FragTokens(f) ==
    CASE f = FragRoot -> <<>>
      [] f = FragA -> <<StrTok(<<"a">>)>>
      [] f = FragB -> <<StrTok(<<"b">>)>>
      [] f = FragA0 -> <<StrTok(<<"a">>), StrTok(<<"0">>)>>
      [] f = FragEmptyKey -> <<StrTok(<<>>)>>

\* some frame was entered twice with the same arguments
Revisited ==
    \/ <<schema, schema_path>> \in visited
    \/ Cardinality(visited) < depth - 1

---------------------------------------------------------------------------
(* Claims about the resolver *)

\* C1: a non-reference node is returned only when no path token remains, and
\* when every step of the path exists the result is the node reached by
\* applying all tokens, the integer 0 and the tokens after it included.
C1_AllTokensApplied ==
    pc = "done" =>
        /\ result.ok => schema_path = <<>>
        /\ Reached.status = "found" => result.ok /\ result.node = Reached.node

\* C2: resolving path p against {"$ref": r} gives the same result, or the same
\* failure, as resolving p against the node that r resolves to with an empty
\* remaining path.
C2_PreDereference ==
    (IsRefNode(call.node) /\ DOMAIN call.node.items = {RefKey}) =>
        LET pre == ExtractByReference(FragOf(call.node), full_schema)
            whole == Extract(call.path, full_schema, call.node)
            after == IF pre.ok THEN Extract(call.path, full_schema, pre.node) ELSE pre
        IN  (whole.err # "RecursionError" /\ after.err # "RecursionError") =>
                whole = after

\* the same statement where no fragment with an empty token is in play
C2_WithoutEmptyTokens ==
    (IsRefNode(call.node) /\ DOMAIN call.node.items = {RefKey}
        /\ call.node # Ref(FragEmptyKey)
        /\ (~IsRefNode(full_schema) => full_schema.items[<<"a">>] # Ref(FragEmptyKey))) =>
        LET pre == ExtractByReference(FragOf(call.node), full_schema)
            whole == Extract(call.path, full_schema, call.node)
            after == IF pre.ok THEN Extract(call.path, full_schema, pre.node) ELSE pre
        IN  (whole.err # "RecursionError" /\ after.err # "RecursionError") =>
                whole = after

\* C3: a frame whose node is a reference node calls the next frame on the
\* document root with the fragment's tokens followed by the remaining tokens
\* ("#" gives no tokens), and the reference node's other keys do not change
\* the outcome.
C3_FromRoot ==
    /\ [][(pc = "call" /\ IsRefNode(CurrentNode) /\ depth' = depth + 1) =>
            /\ CurrentNode' = full_schema
            /\ schema_path' = FragTokens(FragOf(CurrentNode)) \o schema_path]_vars
    /\ [](pc = "call" /\ IsRefNode(CurrentNode) =>
            ExtractFrom(schema_path, full_schema, CurrentNode, depth) =
            ExtractFrom(schema_path, full_schema, Ref(FragOf(CurrentNode)), depth))

\* reached: a reference node with a sibling key, met below the root with tokens
\* still to apply, was followed to a node
C3_Witness ==
    /\ pc = "done" /\ result.ok
    /\ \E v \in visited : v[1] = RefSib(FragB) /\ v[2] # <<>>

\* C4: the recursion ends on every document and path: each frame is deeper
\* than its caller, no frame is deeper than the recursion limit allows, a frame
\* that has not ended can always act, and a walk that entered a frame twice with
\* the same arguments ends with an error, not with a node.
C4_Terminates ==
    /\ [](depth <= RecursionLimit + 1)
    /\ [](pc = "call" => ENABLED NextExtract)
    /\ [][pc' = "done" \/ depth' = depth + 1]_vars
    /\ [](pc = "done" /\ Revisited => ~result.ok /\ result.err = "RecursionError")

\* reached: two nodes that refer to each other were followed until the error
C4_Witness ==
    /\ pc = "done" /\ Revisited /\ result.err = "RecursionError"
    /\ ~IsRefNode(full_schema)
    /\ full_schema.items[<<"a">>] = Ref(FragB)
    /\ full_schema.items[<<"b">>] = Ref(FragA)

\* C5: when some step of the path does not exist in the document, the call
\* fails and returns no node, wherever in the path the missing step is.
C5_MissingStepFails ==
    pc = "done" /\ Reached.status = "missing" => ~result.ok

\* C6: a digit-string token from a fragment is used as the key under a mapping
\* and as the index under a sequence: "#/a/0" resolves through entry "0" of a
\* mapping at "a" (a KeyError without it) and through element 0 of a sequence.
C6_DigitToken ==
    (/\ pc = "done"
     /\ call.node = Ref(FragA0)
     /\ result.err # "RecursionError"
     /\ ~IsRefNode(full_schema)
     /\ ~IsRefNode(full_schema.items[<<"a">>])) =>
        LET a == full_schema.items[<<"a">>]
        IN  /\ a.t = "dict" /\ <<"0">> \in DOMAIN a.items =>
                result = Extract(call.path, full_schema, a.items[<<"0">>])
            /\ a.t = "dict" /\ <<"0">> \notin DOMAIN a.items =>
                result = Raised("KeyError")
            /\ a.t = "list" /\ Len(a.items) >= 1 =>
                result = Extract(call.path, full_schema, a.items[1])

\* reached: "#/a/0" resolved through the entry "0" of a mapping
C6_Witness ==
    /\ pc = "done" /\ result.ok
    /\ call.node = Ref(FragA0)
    /\ full_schema.items[<<"a">>] = Dct(<<"0">> :> StrX)
    /\ result.node = StrX

\* reached in the same way through element 0 of a sequence
C6_WitnessList ==
    /\ pc = "done" /\ result.ok
    /\ call.node = Ref(FragA0)
    /\ full_schema.items[<<"a">>] = Lst(<<StrX>>)
    /\ result.node = StrX

---------------------------------------------------------------------------
(* Claims about the namer *)

AltIndices == 1..Len(alternative_schemas)

\* the candidate name of the i-th alternative (1-based)
Candidate(i) == CandidateName(alternative_schemas[i], i - 1, full_schema)

\* how many alternatives before the i-th have the i-th's candidate name
EarlierSame(i) ==
    Cardinality({j \in 1..(i - 1) : Candidate(j).name = Candidate(i).name})

\* C7: the names one call returns are pairwise distinct.
C7_NamesDistinct ==
    pc = "done" /\ result.ok =>
        \A i, j \in AltIndices : i # j => result.names[i] # result.names[j]

\* C8: the call returns one name per alternative, in order; the i-th is the
\* candidate name itself when no earlier alternative had it, and
\* "<candidate>(<k+1>)" when k >= 1 earlier alternatives had it.  (The call
\* returns whenever every alternative has a candidate name; C9 is about the
\* alternatives that have none.)
C8_Uniquification ==
    pc = "done" =>
        /\ (\A i \in AltIndices : Candidate(i).ok) => result.ok
        /\ result.ok =>
            /\ Len(result.names) = Len(alternative_schemas)
            /\ \A i \in AltIndices :
                 result.names[i] =
                    IF EarlierSame(i) = 0 THEN Candidate(i).name
                    ELSE Candidate(i).name \o <<"(">>
                            \o StrOfInt(EarlierSame(i) + 1) \o <<")">>

\* reached: titles [A, A, B] give [A, A(2), B]
C8_Witness ==
    /\ pc = "done" /\ result.ok
    /\ alternative_schemas = <<Titled(TitleA), Titled(TitleA), Titled(TitleB)>>
    /\ result.names = <<TitleA, TitleA2, TitleB>>

\* the node an alternative stands for: itself, or what its references lead to
Referent(alt) ==
    IF alt.t = "dict" THEN Reach(<<>>, full_schema, alt, RecursionLimit)
    ELSE [status |-> "found", node |-> alt]

HasTitle(node) ==
    /\ node.t = "dict"
    /\ TitleKey \in DOMAIN node.items
    /\ node.items[TitleKey].t = "str"
    /\ node.items[TitleKey].items # <<>>

\* C9: the namer does not fail on alternatives that are not mappings, or whose
\* referent has no non-empty title or is not a mapping: each gets the name
\* "Alternative #<i+1>"; a reference node takes the title of its referent.
C9_DegenerateAlternatives ==
    (pc = "done" /\ \A i \in AltIndices : Referent(alternative_schemas[i]).status = "found") =>
        /\ result.ok
        /\ \A i \in AltIndices :
             LET node == Referent(alternative_schemas[i]).node
             IN  Candidate(i) =
                    NameOk(IF HasTitle(node) THEN node.items[TitleKey].items
                           ELSE FallbackName(i - 1))

---------------------------------------------------------------------------
(* validation_error_to_message and validation_errors_to_message *)

\* most errors explained by one call
MaxErrors == 2

MessageOk(text) == [ok |-> TRUE, err |-> "", text |-> text]
MessageErr(e) == [ok |-> FALSE, err |-> e, text |-> ""]

\* validation_error_to_message
ValidationErrorToMessage(err, full) ==
    Only({IF message_lines.ok THEN MessageOk(Join(message_lines.lines, "\n"))
          ELSE MessageErr(message_lines.err) :
          message_lines \in {ValidationErrorToMessageLines(err, full)}})

\* validation_errors_to_message with the messages joined by one newline
ValidationErrorsToMessageCramped(errs, full) ==
    Only({IF \E k \in 1..Len(messages) : ~messages[k].ok
          THEN MessageErr(
                  messages[CHOOSE k \in 1..Len(messages) :
                              /\ ~messages[k].ok
                              /\ \A j \in 1..(k - 1) : messages[j].ok].err)
          ELSE MessageOk(Join([k \in 1..Len(messages) |-> messages[k].text], "\n")) :
          messages \in {[k \in 1..Len(errs) |->
                            ValidationErrorToMessage(errs[k], full)]}})

\* validation_errors_to_message: the first error that cannot be explained
\* ends the call
ValidationErrorsToMessage(errs, full) ==
    Only({IF \E k \in 1..Len(messages) : ~messages[k].ok
          THEN MessageErr(
                  messages[CHOOSE k \in 1..Len(messages) :
                              /\ ~messages[k].ok
                              /\ \A j \in 1..(k - 1) : messages[j].ok].err)
          ELSE MessageOk(Join([k \in 1..Len(messages) |-> messages[k].text],
                              "\n\n")) :
          messages \in {[k \in 1..Len(errs) |->
                            ValidationErrorToMessage(errs[k], full)]}})

\* errors of each kind: generic, too many satisfied, none satisfied (with an
\* alternative that may have no name, and with an index that is none)
ExplainedErrors ==
    {ValidationError("type", <<>>, <<StrTok(<<"t">>)>>, None, {}, <<>>, "m1"),
     ValidationError("required", <<StrTok(KeyParameters), IntTok(2)>>,
                     <<StrTok(<<"t">>)>>, None, {}, <<>>, "m2"),
     ValidationError("oneOf", <<StrTok(KeyTasks)>>, OneOfSchemaPath,
                     <<Titled(TitleA), Titled(TitleA)>>, {Titled(TitleA)}, <<>>,
                     "m1"),
     ValidationError("oneOf", <<>>, OneOfSchemaPath,
                     <<Titled(TitleA), Ref(FragA)>>, {},
                     <<ValidationError("type", <<StrTok(KeyParameters)>>,
                                       OneOfSchemaPath
                                         \o <<IntTok(1), StrTok(<<"t">>)>>,
                                       None, {}, <<>>, "m1"),
                       ValidationError("oneOf", <<>>, NestedOneOfSchemaPath(0),
                                       <<Titled(TitleA), Bool>>,
                                       {Titled(TitleA), Bool}, <<>>, "m2")>>,
                     "m1"),
     ValidationError("oneOf", <<>>, OneOfSchemaPath, <<Titled(TitleA)>>, {},
                     <<ValidationError("type", <<>>,
                                       OneOfSchemaPath \o <<StrTok(<<"x">>)>>,
                                       None, {}, <<>>, "m1")>>,
                     "m1")}

ErrorLists == UNION {[1..n -> ExplainedErrors] : n \in 0..MaxErrors}

InitExplainAll ==
    /\ errors \in ErrorLists
    /\ full_schema \in ComposerDocs
    /\ schema = None
    /\ schema_path = <<>>
    /\ depth = 0
    /\ pc = "call"
    /\ result = MessageErr("pending")
    /\ call = [path |-> <<>>, node |-> None]
    /\ visited = {}
    /\ alternative_schemas = <<>>
    /\ error = None
    /\ instance_path = <<>>

\* lines 531-538
ExplainAll ==
    /\ pc = "call"
    /\ pc' = "done"
    /\ result' = ValidationErrorsToMessage(errors, full_schema)
    /\ UNCHANGED <<full_schema, schema, schema_path, depth, call, visited,
                   alternative_schemas, error, instance_path, errors>>

NextExplainAll == ExplainAll

SpecExplainAll == InitExplainAll /\ [][NextExplainAll]_vars

---------------------------------------------------------------------------
(* Claims about the composer (SpecComposer) *)

\* the first line of each explanation of a oneOf error, as the caller sees it
NoneSatisfiedFirstLine(names) ==
    Spaces(INDENT_SIZE) \o "Must be exactly one of: " \o NamesText(names)
        \o "; all alternatives failed validation."

TooManyPrefix(names) ==
    "Must be exactly one of: " \o NamesText(names)
        \o ".  Content satisfied more than one alternative: "

\* the names at the given positions, in the order of the positions
NamesAt(names, positions) ==
    LET at == SelectSeq([k \in 1..Len(names) |-> k], LAMBDA k : k \in positions)
    IN  [k \in 1..Len(at) |-> names[at[k]]]

\* C10: for a oneOf error the composer uses the none-satisfied explanation
\* exactly when the error has nested errors and the too-many-satisfied one
\* otherwise; for any other validator it does not fail and returns the one
\* line "In <location>: <message>".
C10_CaseSelection ==
    pc = "done" =>
        /\ error.validator = "oneOf" =>
            /\ result.what = "none" <=> error.context # <<>>
            /\ result.what = "toomany" <=> error.context = <<>>
            /\ result.ok =>
                LET names == GetOneOfAlternativeNames(error.validator_value,
                                                      full_schema).names
                    location == InstancePathToDescription(error.absolute_path)
                IN  IF error.context # <<>>
                    THEN /\ Len(result.lines) > 2
                         /\ result.lines[1] = "In " \o location \o ":"
                         /\ result.lines[2] = NoneSatisfiedFirstLine(names)
                    ELSE /\ Len(result.lines) = 1
                         /\ \E satisfied \in SUBSET (1..Len(names)) :
                              result.lines[1] =
                                "In " \o location \o ": " \o TooManyPrefix(names)
                                \o NamesText(NamesAt(names, satisfied))
                                \o "."
        /\ error.validator # "oneOf" =>
            /\ result.ok
            /\ result.what = "generic"
            /\ result.lines =
                    <<"In " \o InstancePathToDescription(error.absolute_path)
                        \o ": " \o error.message>>

\* reached: a oneOf error with nested errors is explained, alternative by
\* alternative
C10_Witness ==
    /\ pc = "done" /\ result.ok
    /\ error.validator = "oneOf" /\ Len(error.context) = 2
    /\ result.what = "none"
    /\ Len(result.lines) > 2

\* reached: a oneOf error without nested errors, and an error of another
\* validator
C10_WitnessTooMany ==
    /\ pc = "done" /\ result.ok
    /\ error.validator = "oneOf" /\ error.context = <<>>
    /\ Len(result.lines) = 1

C10_WitnessGeneric ==
    /\ pc = "done"
    /\ error.validator = "type"
    /\ error.absolute_path = <<StrTok(KeyParameters), IntTok(2)>>
    /\ error.message = "m1"
    /\ result.lines = <<"In parameter #3: m1">>

\* the names of the alternatives of the explained error
AltNames == GetOneOfAlternativeNames(error.validator_value, full_schema)

\* the token of the c-th nested error's schema path that follows the explained
\* error's schema path
HasAltToken(c) ==
    Len(error.context[c].absolute_schema_path) > Len(error.absolute_schema_path)

AltToken(c) ==
    error.context[c].absolute_schema_path[Len(error.absolute_schema_path) + 1]

\* the token is the index of one of the alternatives
ValidAltToken(c) ==
    /\ HasAltToken(c)
    /\ AltToken(c).k = "int"
    /\ AltToken(c).n \in 0..(Len(error.validator_value) - 1)

NoneSatisfiedCase ==
    pc = "done" /\ error.validator = "oneOf" /\ error.context # <<>>

RECURSIVE Flatten(_)
Flatten(seqs) == IF seqs = <<>> THEN <<>> ELSE Head(seqs) \o Flatten(Tail(seqs))

ContextPositions == [c \in 1..Len(error.context) |-> c]

\* the nested errors at which an alternative is met for the first time
FirstMet ==
    SelectSeq(ContextPositions,
              LAMBDA c : \A d \in 1..(c - 1) : AltToken(d).n # AltToken(c).n)

\* the nested errors of the alternative met at c, in their order
SameAlternative(c) ==
    SelectSeq(ContextPositions, LAMBDA d : AltToken(d).n = AltToken(c).n)

\* the header of the alternative met at c and, under it, the explanations of
\* its nested errors
AlternativeBlock(c) ==
    <<"Errors associated with alternative \""
        \o ToStr(AltNames.names[AltToken(c).n + 1]) \o "\":">>
    \o Flatten([k \in 1..Len(SameAlternative(c)) |->
                  IndentLines(ValidationErrorToMessageLines(
                      error.context[SameAlternative(c)[k]], full_schema).lines)])

GroupedByAlternative ==
    <<"In " \o InstancePathToDescription(error.absolute_path) \o ":">>
    \o IndentLines(
          <<"Must be exactly one of: " \o NamesText(AltNames.names)
              \o "; all alternatives failed validation.">>
          \o Flatten([k \in 1..Len(FirstMet) |-> AlternativeBlock(FirstMet[k])]))

\* C11: in the none-satisfied case every nested error is explained once, under
\* the header of the alternative whose index follows the explained error's
\* schema path in its own; the alternatives with nested errors get one header
\* each, in the order they are first met, and the explanations under a header
\* keep the order of the nested errors.
C11_Grouping ==
    (NoneSatisfiedCase /\ result.ok
        /\ \A c \in 1..Len(error.context) : ValidAltToken(c)) =>
        result.lines = GroupedByAlternative

\* the same, when the names of the alternatives are pairwise distinct
C11_WithDistinctNames ==
    (NoneSatisfiedCase /\ result.ok
        /\ (\A c \in 1..Len(error.context) : ValidAltToken(c))
        /\ \A i, j \in 1..Len(AltNames.names) :
              i # j => AltNames.names[i] # AltNames.names[j]) =>
        result.lines = GroupedByAlternative

\* reached: two alternatives with distinct names, each with a nested error
C11_DistinctWitness ==
    /\ NoneSatisfiedCase /\ result.ok
    /\ Len(error.context) = 2
    /\ \A c \in 1..2 : ValidAltToken(c)
    /\ AltToken(1).n = 2 /\ AltToken(2).n = 1
    /\ AltNames.names[2] # AltNames.names[3]

TooManySatisfiedCase ==
    pc = "done" /\ error.validator = "oneOf" /\ error.context = <<>>

\* the positions of the alternatives the probe reports the instance valid for
SatisfiedPositions ==
    {k \in 1..Len(error.validator_value) : error.validator_value[k] \in error.valid}

\* C12: in the too-many-satisfied case the result is the one line
\* "In <location>: Must be exactly one of: <names>.  Content satisfied more
\* than one alternative: <S>.", S being the names of the alternatives the probe
\* reports valid, in the order of the alternatives, whatever the probe reports
\* (S may be empty).  (The names are those the namer returns; when the namer
\* fails, its error is the outcome.)
C12_TooManyMessage ==
    TooManySatisfiedCase =>
        IF AltNames.ok
        THEN /\ result.ok
             /\ result.lines =
                  <<"In " \o InstancePathToDescription(error.absolute_path)
                    \o ": Must be exactly one of: "
                    \o Join([k \in 1..Len(AltNames.names) |->
                               ToStr(AltNames.names[k])], ", ")
                    \o ".  Content satisfied more than one alternative: "
                    \o Join([k \in 1..Len(NamesAt(AltNames.names, SatisfiedPositions)) |->
                               ToStr(NamesAt(AltNames.names, SatisfiedPositions)[k])],
                            ", ")
                    \o ".">>
        ELSE ~result.ok /\ result.err = AltNames.err

\* reached: the probe reports both of two alternatives valid
C12_Witness ==
    /\ TooManySatisfiedCase /\ result.ok
    /\ error.absolute_path = <<>>
    /\ error.validator_value = <<Titled(TitleA), Titled(TitleA2)>>
    /\ error.valid = {Titled(TitleA), Titled(TitleA2)}
    /\ result.lines =
         <<"In root level of experiment description: Must be exactly one of: A, A(2).  Content satisfied more than one alternative: A, A(2).">>

\* reached: the probe reports no alternative valid
C12_WitnessNoneValid ==
    /\ TooManySatisfiedCase /\ result.ok
    /\ error.absolute_path = <<>>
    /\ error.validator_value = <<Titled(TitleA), Titled(TitleA2)>>
    /\ error.valid = {}
    /\ result.lines =
         <<"In root level of experiment description: Must be exactly one of: A, A(2).  Content satisfied more than one alternative: .">>

\* the explained error, its nested errors and theirs
Failures ==
    {error} \cup {error.context[c] : c \in 1..Len(error.context)}
    \cup UNION {{error.context[c].context[d] :
                    d \in 1..Len(error.context[c].context)} :
                c \in 1..Len(error.context)}

\* what explaining e gives: for the explained error, the result of the call
ExplanationOf(e) ==
    IF e = error THEN result ELSE ValidationErrorToMessageLines(e, full_schema)

\* the body of the message of e (what_lines)
BodyOf(e) ==
    CASE WhatCase(e) = "none" -> OneOfNoAlternativesLines(e, full_schema)
      [] WhatCase(e) = "toomany" -> OneOfTooManyLines(e, full_schema)
      [] OTHER -> LinesOk(<<e.message>>, "generic")

\* one line for a one-line body; else "In <location>:" and the body lines
\* after 4 spaces each
LaidOut(e, body, lines) ==
    LET where == "In " \o InstancePathToDescription(e.absolute_path)
    IN  IF Len(body) = 1
        THEN lines = <<where \o ": " \o body[1]>>
        ELSE lines = <<where \o ":">> \o [k \in 1..Len(body) |-> "    " \o body[k]]

\* the nested errors of e as the code groups them
GroupsOf(e) ==
    GroupByAlternative(e.context, 1, Len(e.absolute_schema_path),
                       GetOneOfAlternativeNames(e.validator_value,
                                                full_schema).names,
                       <<>>).groups

\* the lines, each after 8 spaces
EightIn(lines) == [l \in 1..Len(lines) |-> "        " \o lines[l]]

\* under a header, which stands 4 spaces in, the lines of the explanations of
\* its nested errors stand 8 spaces in
HeaderAndNested(group) ==
    <<"    Errors associated with alternative \"" \o ToStr(group.name) \o "\":">>
    \o Flatten([k \in 1..Len(group.errors) |->
                  EightIn(ExplanationOf(group.errors[k]).lines)])

NestedLaidOut(groups, lines) ==
    SubSeq(lines, 3, Len(lines)) =
        Flatten([g \in 1..Len(groups) |-> HeaderAndNested(groups[g])])

\* C13: a one-line body gives the single line "In <location>: <body line>";
\* any other body gives "In <location>:" followed by the body lines, each
\* after exactly 4 spaces.  So in a none-satisfied message the lines of a
\* nested error's explanation stand exactly 4 spaces further in than the
\* header above them, at every depth of nesting.
C13_Layout ==
    pc = "done" =>
        \A e \in Failures :
            LET explanation == ExplanationOf(e)
            IN  explanation.ok =>
                    /\ LaidOut(e, BodyOf(e).lines, explanation.lines)
                    /\ WhatCase(e) = "none" =>
                            NestedLaidOut(GroupsOf(e), explanation.lines)

\* reached: a none-satisfied message with a none-satisfied message nested in
\* it, whose own nested explanation stands four levels in
C13_Witness ==
    /\ NoneSatisfiedCase /\ result.ok
    /\ error.absolute_path = <<>>
    /\ error.validator_value = <<Titled(TitleA), Titled(TitleA2)>>
    /\ Len(error.context) = 1
    /\ result.lines =
         <<"In root level of experiment description:",
           "    Must be exactly one of: A, A(2); all alternatives failed validation.",
           "    Errors associated with alternative \"A(2)\":",
           "        In tasks section:",
           "            Must be exactly one of: A, Alternative #2; all alternatives failed validation.",
           "            Errors associated with alternative \"Alternative #2\":",
           "                In global parameters section: m1">>

---------------------------------------------------------------------------
(* Claims about the locator (SpecLocator) *)

FirstTokenKnown(p) ==
    /\ p # <<>>
    /\ p[1].k = "str"
    /\ p[1].s \in {KeyParameters, KeyTasks, KeyGraph}

\* the shapes the specification lists with a description of their own
RecognizedShape(p) ==
    \/ p = <<>>
    \/ /\ FirstTokenKnown(p)
       /\ \/ Len(p) <= 2
          \/ /\ Len(p) = 3
             /\ p[3].k = "str"
             /\ \/ p[1].s = KeyTasks /\ p[3].s \in {KeyOutputs, KeyPlugin}
                \/ p[1].s = KeyGraph /\ p[3].s = KeyDependencies

RECURSIVE Concat(_)
\* the strings of a sequence put one after the other
Concat(strs) == IF strs = <<>> THEN "" ELSE Head(strs) \o Concat(Tail(strs))

FallbackDescription(p) ==
    "experiment description location "
        \o (IF p = <<>> THEN "/"
            ELSE Concat([k \in 1..Len(p) |-> "/" \o TokStr(p[k])]))

\* the description the specification gives for a recognized shape
ShapeDescription(p) ==
    LET second == IF p[2].k = "str" THEN ToStr(p[2].s)
                  ELSE ToStr(StrOfInt(p[2].n))
    IN  CASE p = <<>> -> "root level of experiment description"
          [] Len(p) = 1 /\ p[1].s = KeyParameters -> "global parameters section"
          [] Len(p) = 1 /\ p[1].s = KeyTasks -> "tasks section"
          [] Len(p) = 1 /\ p[1].s = KeyGraph -> "graph section"
          [] Len(p) = 2 /\ p[1].s = KeyParameters ->
                IF p[2].k = "str" THEN "parameter \"" \o second \o "\""
                ELSE "parameter #" \o ToStr(StrOfInt(p[2].n + 1))
          [] Len(p) >= 2 /\ p[1].s = KeyTasks ->
                "task plugin \"" \o second \o "\""
                \o (IF Len(p) = 2 THEN ""
                    ELSE IF p[3].s = KeyOutputs THEN " outputs" ELSE " plugin ID")
          [] Len(p) >= 2 /\ p[1].s = KeyGraph ->
                "step \"" \o second \o "\""
                \o (IF Len(p) = 2 THEN "" ELSE " dependencies")

\* the longest recognized shape a path starts with
RecognizedPrefix(p) ==
    LET lens == {n \in 0..Len(p) : RecognizedShape(SubSeq(p, 1, n))}
    IN  SubSeq(p, 1, CHOOSE n \in lens : \A m \in lens : m <= n)

\* C14 as stated: the locator does not fail, and every non-empty path that is
\* not one of the recognized shapes (another first token, or a recognized
\* prefix followed by something else) is described as "experiment description
\* location " and its tokens after "/" each.
C14_Fallback ==
    pc = "done" =>
        /\ result.ok
        /\ (instance_path # <<>> /\ ~RecognizedShape(instance_path)) =>
                result.lines = <<FallbackDescription(instance_path)>>

\* C14 amended: the locator does not fail; a non-empty path whose first token
\* is not "parameters", "tasks" or "graph" is described as "experiment
\* description location " and its tokens after "/" each; a path whose first
\* token is one of the three never is: what follows its longest recognized
\* prefix is ignored and that prefix is described.
C14_FallbackAmended ==
    pc = "done" =>
        /\ result.ok
        /\ (instance_path # <<>> /\ ~FirstTokenKnown(instance_path)) =>
                result.lines = <<FallbackDescription(instance_path)>>
        /\ FirstTokenKnown(instance_path) =>
                result.lines = <<ShapeDescription(RecognizedPrefix(instance_path))>>

\* reached: a task's path with a third token that is none of the known ones
C14_Witness ==
    /\ pc = "done"
    /\ instance_path = <<StrTok(KeyTasks), StrTok(<<"l", "r">>), StrTok(KeyGraph)>>
    /\ result.lines = <<"task plugin \"lr\"">>

\* reached: the fallback
C14_WitnessFallback ==
    /\ pc = "done"
    /\ instance_path = <<StrTok(<<"l", "r">>), IntTok(0)>>
    /\ result.lines = <<"experiment description location /lr/0">>

StartsWithParameters(p) ==
    p # <<>> /\ p[1].k = "str" /\ p[1].s = KeyParameters

\* C15: ["parameters"] is the "global parameters section"; a longer path that
\* starts with "parameters" is 'parameter "<name>"' when its second token is
\* the string <name>, and "parameter #<n+1>" when it is the integer n.
C15_Parameters ==
    (pc = "done" /\ StartsWithParameters(instance_path)) =>
        /\ result.ok
        /\ result.lines =
            IF Len(instance_path) = 1 THEN <<"global parameters section">>
            ELSE IF instance_path[2].k = "str"
            THEN <<"parameter \"" \o ToStr(instance_path[2].s) \o "\"">>
            ELSE <<"parameter #" \o ToStr(StrOfNat(instance_path[2].n + 1))>>

\* reached: the third parameter of a list of parameters
C15_Witness ==
    /\ pc = "done"
    /\ instance_path = <<StrTok(KeyParameters), IntTok(2)>>
    /\ result.lines = <<"parameter #3">>

\* reached: a parameter by name, and the section
C15_WitnessName ==
    /\ pc = "done"
    /\ instance_path = <<StrTok(KeyParameters), StrTok(<<"l", "r">>), IntTok(0)>>
    /\ result.lines = <<"parameter \"lr\"">>

C15_WitnessSection ==
    /\ pc = "done"
    /\ instance_path = <<StrTok(KeyParameters)>>
    /\ result.lines = <<"global parameters section">>

---------------------------------------------------------------------------
(* Claims about validation_errors_to_message (SpecExplainAll) *)

\* explainOne of the k-th error
OneOf(k) == ValidationErrorToMessage(errors[k], full_schema)

AllExplained == \A k \in 1..Len(errors) : OneOf(k).ok

\* the lines of the k-th error's explanation, a newline after each but the
\* last
LinesWithNewlines(k) ==
    LET lines == ValidationErrorToMessageLines(errors[k], full_schema).lines
    IN  Concat([l \in 1..Len(lines) |->
                  lines[l] \o (IF l < Len(lines) THEN "\n" ELSE "")])

\* C16: the result is the explanations of the errors, in their order, with
\* "\n\n" between two of them: the empty string for no error, explainOne(f)
\* for [f], and explainAll(xs) + "\n\n" + explainAll(ys) for xs ++ ys; each
\* explanation is the composer's lines with one newline between two of them.
C16_ExplainAll ==
    pc = "done" =>
        /\ errors = <<>> => result = MessageOk("")
        /\ Len(errors) = 1 => result = OneOf(1)
        /\ result.ok <=> AllExplained
        /\ result.ok =>
            /\ \A k \in 1..Len(errors) : OneOf(k).text = LinesWithNewlines(k)
            /\ result.text =
                 Concat([k \in 1..Len(errors) |->
                           (IF k > 1 THEN "\n\n" ELSE "") \o LinesWithNewlines(k)])
            /\ \A n \in 1..(Len(errors) - 1) :
                 result.text =
                    ValidationErrorsToMessage(SubSeq(errors, 1, n),
                                              full_schema).text
                    \o "\n\n"
                    \o ValidationErrorsToMessage(SubSeq(errors, n + 1, Len(errors)),
                                                 full_schema).text

\* reached: a one-line explanation followed by one of several lines
C16_Witness ==
    /\ pc = "done" /\ result.ok
    /\ Len(errors) = 2
    /\ errors[1].validator = "required"
    /\ errors[2].validator = "oneOf" /\ Len(errors[2].context) = 2
    /\ result.text =
         "In parameter #3: m2\n\nIn root level of experiment description:\n    Must be exactly one of: A, A(2); all alternatives failed validation.\n    Errors associated with alternative \"A(2)\":\n        In global parameters section: m1\n    Errors associated with alternative \"A\":\n        In root level of experiment description: Must be exactly one of: A, Alternative #2.  Content satisfied more than one alternative: A, Alternative #2."

\* reached: no error
C16_WitnessEmpty ==
    pc = "done" /\ errors = <<>> /\ result = MessageOk("")

---------------------------------------------------------------------------
(* More claims about the composer (SpecComposer) *)

\* C18: in the none-satisfied case a nested error whose schema path has no
\* token after the explained error's schema path, or a token there that is
\* not an integer, or an integer that is not the index of an alternative
\* (0 <= i < number of alternatives), makes the explanation fail; it is not
\* skipped and not put under another alternative.
C18_InvalidIndexFails ==
    (NoneSatisfiedCase /\ \E c \in 1..Len(error.context) : ~ValidAltToken(c)) =>
        ~result.ok

\* a negative integer that Python counts from the end of the names
WrapsAround(c) ==
    /\ HasAltToken(c)
    /\ AltToken(c).k = "int"
    /\ AltToken(c).n < 0
    /\ 0 - AltToken(c).n <= Len(error.validator_value)

\* the same, for every such token but the negative integers that wrap around
C18_UnlessWrapped ==
    (NoneSatisfiedCase
        /\ (\E c \in 1..Len(error.context) : ~ValidAltToken(c))
        /\ \A c \in 1..Len(error.context) : ~WrapsAround(c)) =>
        ~result.ok

\* reached: a nested error without a token, one with a key and one with too
\* large an index end the explanation
C18_WitnessFails ==
    /\ NoneSatisfiedCase /\ ~result.ok
    /\ AltNames.ok
    /\ Len(error.context) = 1
    /\ result.err \in {"IndexError", "AssertionError"}

---------------------------------------------------------------------------
(* More claims about the resolver (SpecExtract) *)

\* C19: a node the resolver returns is never a reference node (a mapping
\* with the key "$ref"), whatever the path and the starting node: the empty
\* path, and references to references, included.
C19_NeverReturnsReference ==
    (pc = "done" /\ result.ok) => ~IsRefNode(result.node)

\* reached: the empty path from a reference to a reference
C19_Witness ==
    /\ pc = "done" /\ result.ok
    /\ call.path = <<>>
    /\ call.node = Ref(FragA)
    /\ full_schema.t = "dict"
    /\ full_schema.items[<<"a">>] = Ref(FragB)
    /\ full_schema.items[<<"b">>] = StrX
    /\ result.node = StrX

---------------------------------------------------------------------------
(* The core as a whole: any one of its operations, on its inputs *)

InitCore ==
    InitExtract \/ InitNamer \/ InitComposer \/ InitLocator \/ InitExplainAll

\* the operations are told apart by what they were given
ExtractCalled == depth >= 1
LocatorCalled == depth = 0 /\ full_schema = None
ExplainAllCalled == depth = 0 /\ full_schema # None /\ "text" \in DOMAIN result
ComposerCalled ==
    depth = 0 /\ full_schema # None /\ "text" \notin DOMAIN result /\ error # None
NamerCalled ==
    depth = 0 /\ full_schema # None /\ "text" \notin DOMAIN result /\ error = None

NextCore ==
    \/ ExtractCalled /\ NextExtract
    \/ NamerCalled /\ NextNamer
    \/ ComposerCalled /\ NextComposer
    \/ LocatorCalled /\ NextLocator
    \/ ExplainAllCalled /\ NextExplainAll

SpecCore == InitCore /\ [][NextCore]_vars

C17_WitnessExplained ==
    /\ ComposerCalled /\ pc = "done" /\ result.ok
    /\ Len(error.context) = 2
    /\ Len(result.lines) > 3

=============================================================================
